---- MODULE Spec2Model ----
(***************************************************************************)
(* A model of complete_career_scraper (src/job_crawler_project/main.py):   *)
(* the text helpers clean_text and is_valid_job_title, the per-platform    *)
(* card loops, scrape_with_selenium, scrape_with_api, scrape_site and the  *)
(* run loop of main.                                                       *)
(*                                                                         *)
(* A Python str is a sequence of one-character strings, so that the        *)
(* regular expressions of the source are computed character by character.  *)
(***************************************************************************)
EXTENDS Integers, Sequences, FiniteSets, TLC

VARIABLES
    sites,            \* SITES, the configured list of site_conf records
    site_no,          \* main: i, the index of the site being processed
    pc,               \* the position of the run
    all_jobs,         \* main: the rows collected so far
    successful_sites, \* main
    failed_sites,     \* main: the names of the sites without rows
    saved,            \* the rows handed to save_to_csv
    rows,             \* what scrape_site returned to main
    jobs,             \* the jobs list of the scraper that is running
    driver,           \* scrape_with_selenium: its local variable driver
    browsers,         \* the browser sessions that are open (by site index)
    page,             \* the loaded page: what each locator of the cascade matches;
                      \* for an API site, the postings of the fetched feed
    tried,            \* the locators queried on the loaded page, in order
    cards,            \* the cards the cascade or the link scan returned
    card_no,          \* how many cards of the loop have been attempted
    seen_titles,      \* generic card loop: seen_titles
    last_card,        \* what the last attempted card was and whether it was appended
    retrieval,        \* per site: the outcomes of its retrieval calls
    results,          \* per site: what scrape_site returned (<<>> while it has not)
    inp,              \* a text helper's input
    out               \* a text helper's result

vars == <<sites, site_no, pc, all_jobs, successful_sites, failed_sites, saved, rows, jobs, driver,
          browsers, page, tried, cards, card_no, seen_titles, last_card, retrieval, results,
          inp, out>>

(***************************************************************************)
(* Characters and the str methods the source uses.                         *)
(***************************************************************************)
UpperLetters == <<"A", "B", "C", "D", "E", "F", "G", "H", "I", "J", "K", "L", "M",
                  "N", "O", "P", "Q", "R", "S", "T", "U", "V", "W", "X", "Y", "Z">>
LowerLetters == <<"a", "b", "c", "d", "e", "f", "g", "h", "i", "j", "k", "l", "m",
                  "n", "o", "p", "q", "r", "s", "t", "u", "v", "w", "x", "y", "z">>
Digits == {"0", "1", "2", "3", "4", "5", "6", "7", "8", "9"}

\* Python's None, kept apart from every str (no str holds this element).
None == <<"<None>">>

IsUpper(c) == c \in {"A", "B", "C", "D", "E", "F", "G", "H", "I", "J", "K", "L", "M",
                      "N", "O", "P", "Q", "R", "S", "T", "U", "V", "W", "X", "Y", "Z"}
IsLower(c) == c \in {"a", "b", "c", "d", "e", "f", "g", "h", "i", "j", "k", "l", "m",
                      "n", "o", "p", "q", "r", "s", "t", "u", "v", "w", "x", "y", "z"}
IsAlpha(c) == IsUpper(c) \/ IsLower(c)
IsDigit(c) == c \in Digits
\* \s of re, and the characters str.strip() and str.split() remove
IsSpace(c) == c \in {" ", "\n", "\t"}

LowerOf == [c \in {UpperLetters[i] : i \in 1..26} |->
               LowerLetters[CHOOSE i \in 1..26 : UpperLetters[i] = c]]
ToLower(c) == IF c \in DOMAIN LowerOf THEN LowerOf[c] ELSE c
\* str.lower(); also how re.IGNORECASE compares a literal pattern
lower(s) == [i \in 1..Len(s) |-> ToLower(s[i])]

SetMin(S) == CHOOSE x \in S : \A y \in S : x <= y
SetMax(S) == CHOOSE x \in S : \A y \in S : x >= y

\* str.strip()
strip(s) ==
    LET keep == {i \in 1..Len(s) : ~IsSpace(s[i])}
    IN  IF keep = {} THEN <<>> ELSE SubSeq(s, SetMin(keep), SetMax(keep))

\* re.sub(r'\s+', ' ', s): every maximal run of whitespace becomes one space
RECURSIVE sub_ws(_, _)
sub_ws(s, i) ==
    IF i > Len(s) THEN <<>>
    ELSE IF IsSpace(s[i])
         THEN IF i > 1 /\ IsSpace(s[i - 1]) THEN sub_ws(s, i + 1)
              ELSE <<" ">> \o sub_ws(s, i + 1)
         ELSE <<s[i]>> \o sub_ws(s, i + 1)

\* str.startswith on a lower-cased string: re.match(r'^lit', s, re.IGNORECASE)
StartsWithCI(s, lit) == Len(s) >= Len(lit) /\ lower(SubSeq(s, 1, Len(lit))) = lit

\* needle in s
Contains(s, needle) ==
    \E i \in 1..(Len(s) - Len(needle) + 1) : SubSeq(s, i, i + Len(needle) - 1) = needle

\* str.split(sep) for a one-character separator: the pieces between separators
RECURSIVE split_on(_, _)
split_on(s, sep) ==
    LET at == {i \in 1..Len(s) : s[i] = sep}
    IN  IF at = {} THEN <<s>>
        ELSE <<SubSeq(s, 1, SetMin(at) - 1)>> \o split_on(SubSeq(s, SetMin(at) + 1, Len(s)), sep)

\* str.split(): the maximal runs of non-whitespace characters
RECURSIVE split(_)
split(s) ==
    LET t == strip(s)
        sp == {i \in 1..Len(t) : IsSpace(t[i])}
    IN  IF t = <<>> THEN <<>>
        ELSE IF sp = {} THEN <<t>>
        ELSE <<SubSeq(t, 1, SetMin(sp) - 1)>> \o split(SubSeq(t, SetMin(sp) + 1, Len(t)))

\* ", ".join(parts)
RECURSIVE join(_, _)
join(parts, sep) ==
    IF parts = <<>> THEN <<>>
    ELSE IF Len(parts) = 1 THEN parts[1]
    ELSE parts[1] \o sep \o join(Tail(parts), sep)

(***************************************************************************)
(* The literals of the source's patterns, lower-cased: every pattern is    *)
(* matched with re.IGNORECASE.                                             *)
(***************************************************************************)
s_location == <<"l", "o", "c", "a", "t", "i", "o", "n">>
s_categorie == <<"c", "a", "t", "e", "g", "o", "r", "i", "e">>
s_categories == <<"c", "a", "t", "e", "g", "o", "r", "i", "e", "s">>
s_filter == <<"f", "i", "l", "t", "e", "r">>
s_filters == <<"f", "i", "l", "t", "e", "r", "s">>
s_business_unit == <<"b", "u", "s", "i", "n", "e", "s", "s", " ", "u", "n", "i", "t">>
s_company == <<"c", "o", "m", "p", "a", "n", "y">>
s_save == <<"s", "a", "v", "e">>
s_view_job == <<"v", "i", "e", "w", " ", "j", "o", "b">>
s_apply_now == <<"a", "p", "p", "l", "y", " ", "n", "o", "w">>
s_apply == <<"a", "p", "p", "l", "y">>
s_view == <<"v", "i", "e", "w">>
s_result == <<"r", "e", "s", "u", "l", "t">>
s_results == <<"r", "e", "s", "u", "l", "t", "s">>
s_home == <<"h", "o", "m", "e">>
s_remote == <<"r", "e", "m", "o", "t", "e">>
s_location_colon == <<"l", "o", "c", "a", "t", "i", "o", "n", ":">>
NotSpecified == <<"N", "o", "t", " ", "s", "p", "e", "c", "i", "f", "i", "e", "d">>
UnknownTitle == <<"U", "n", "k", "n", "o", "w", "n", " ", "T", "i", "t", "l", "e">>

\* r'^(Location|Categories?|Filters?|Business Unit|Company|Save|View Job|Apply Now|Apply)$'
ui_labels == {s_location, s_categorie, s_categories, s_filter, s_filters, s_business_unit,
              s_company, s_save, s_view_job, s_apply_now, s_apply}

\* r'^\d+ Results?$' on a lower-cased string
MatchesNResults(t) ==
    \E k \in 1..Len(t) :
        /\ \A i \in 1..k : IsDigit(t[i])
        /\ k + 1 <= Len(t)
        /\ t[k + 1] = " "
        /\ SubSeq(t, k + 2, Len(t)) \in {s_result, s_results}

\* the loop over ui_patterns: re.match(pattern, text.strip(), re.IGNORECASE)
ui_patterns(text) ==
    LET t == lower(strip(text))
    IN  \/ t \in ui_labels
        \/ MatchesNResults(t)
        \/ t = s_home
        \/ t = s_remote

\* re.sub(r'^Location:\s*', '', text, flags=re.IGNORECASE)
strip_location_prefix(text) ==
    IF StartsWithCI(text, s_location_colon)
    THEN LET rest == SubSeq(text, Len(s_location_colon) + 1, Len(text))
             keep == {i \in 1..Len(rest) : ~IsSpace(rest[i])}
         IN  IF keep = {} THEN <<>> ELSE SubSeq(rest, SetMin(keep), Len(rest))
    ELSE text

clean_text(text) ==
    IF text = None \/ text = <<>> THEN <<>>
    ELSE IF ui_patterns(text) THEN <<>>
    ELSE strip_location_prefix(strip(sub_ws(text, 1)))

\* r'^(Filters?|Location|Categories?|Save|Apply|View|Company|Results?)$'
invalid_labels == {s_filter, s_filters, s_location, s_categorie, s_categories, s_save,
                   s_apply, s_view, s_company, s_result, s_results}

\* the loop over invalid_patterns: re.match(pattern, title.strip(), re.IGNORECASE)
invalid_patterns(title) ==
    LET t == strip(title)
    IN  \/ lower(t) \in invalid_labels
        \/ (t # <<>> /\ \A i \in 1..Len(t) : IsDigit(t[i]))
        \* r'^[A-Z]{2,3}$' under re.IGNORECASE matches letters of either case
        \/ (Len(t) \in {2, 3} /\ \A i \in 1..Len(t) : IsAlpha(t[i]))
        \/ lower(t) = s_home

is_valid_job_title(title) ==
    IF title = None \/ title = <<>> \/ Len(title) < 3 THEN FALSE
    ELSE IF invalid_patterns(title) THEN FALSE
    ELSE LET words == split(title)
         IN  \E w \in 1..Len(words) : Len(words[w]) > 2

(***************************************************************************)
(* The text-block loop of the generic card loop (main.py 891-906).         *)
(***************************************************************************)
\* the loop with "len(line) > 2" left out of the elif: any non-empty line can be the location
RECURSIVE scan_lines_any_length(_, _, _, _)
scan_lines_any_length(lines, i, title, location) ==
    IF i > Len(lines) THEN [title |-> title, location |-> location]
    ELSE LET line == clean_text(lines[i])
         IN  IF line = <<>> THEN scan_lines_any_length(lines, i + 1, title, location)
             ELSE IF title = None /\ is_valid_job_title(line)
                  THEN scan_lines_any_length(lines, i + 1, line, location)
             ELSE IF title # None /\ location = None
                  THEN IF ~(\/ StartsWithCI(line, s_save)
                            \/ StartsWithCI(line, s_apply)
                            \/ StartsWithCI(line, s_view))
                       THEN [title |-> title, location |-> line]
                       ELSE scan_lines_any_length(lines, i + 1, title, location)
             ELSE scan_lines_any_length(lines, i + 1, title, location)

RECURSIVE scan_lines(_, _, _, _)
scan_lines(lines, i, title, location) ==
    IF i > Len(lines) THEN [title |-> title, location |-> location]
    ELSE LET line == clean_text(lines[i])
         IN  IF line = <<>> THEN scan_lines(lines, i + 1, title, location)
             ELSE IF title = None /\ is_valid_job_title(line)
                  THEN scan_lines(lines, i + 1, line, location)
             ELSE IF title # None /\ location = None /\ Len(line) > 2
                  THEN IF ~(\/ StartsWithCI(line, s_save)
                            \/ StartsWithCI(line, s_apply)
                            \/ StartsWithCI(line, s_view))
                       THEN [title |-> title, location |-> line]
                       ELSE scan_lines(lines, i + 1, title, location)
             ELSE scan_lines(lines, i + 1, title, location)

\* lines = card_text.split('\n') and the loop over them
text_block(card_text) == scan_lines(split_on(card_text, "\n"), 1, None, None)

(***************************************************************************)
(* Bounds of the model and constants of the program.                       *)
(***************************************************************************)
\* the most elements one locator matches on a page, and the most links of a page
MaxElems == 5
\* the number of sites of a list with several sites
NumSites == 2
\* the most pieces concatenated into an input of a text helper
MaxPieces == 3
\* the most lines of a card text given to the text-block loop
MaxLines == 4

\* scrape_site's parameter max_jobs; main leaves it at MAX_JOBS_PER_SITE (200),
\* the model runs the same code with a cap small enough to be reached
max_jobs == 2
\* len(card_text) > 500 skips a generic card
MaxCardText == 500

(***************************************************************************)
(* Values the pages, feeds and configuration are drawn from.               *)
(***************************************************************************)
url_a == <<"h", "t", "t", "p", ":", "/", "/", "a", ".", "c", "o", "/", "c", "a", "r", "e", "e", "r", "s">>
url_b == <<"h", "t", "t", "p", ":", "/", "/", "b", ".", "c", "o", "/", "c", "a", "r", "e", "e", "r", "s">>
api_url == <<"h", "t", "t", "p", ":", "/", "/", "a", "p", "i", ".", "c", "o", "/", "p", "o", "s", "t", "i", "n", "g", "s">>
href_job == <<"h", "t", "t", "p", ":", "/", "/", "a", ".", "c", "o", "/", "j", "o", "b", "/", "1">>
href_about == <<"h", "t", "t", "p", ":", "/", "/", "a", ".", "c", "o", "/", "a", "b", "o", "u", "t">>
href_jobs_host == <<"h", "t", "t", "p", ":", "/", "/", "j", "o", "b", "s", ".", "c", "o", "/", "a", "b", "o", "u", "t">>
t_software_engineer == <<"S", "o", "f", "t", "w", "a", "r", "e", " ", "E", "n", "g", "i", "n", "e", "e", "r">>
t_senior_analyst == <<"S", "e", "n", "i", "o", "r", " ", "A", "n", "a", "l", "y", "s", "t">>
t_qa == <<"Q", "A">>
l_washington == <<"W", "a", "s", "h", "i", "n", "g", "t", "o", "n", ",", " ", "D", "C">>
l_remote == <<"R", "e", "m", "o", "t", "e">>
l_arlington == <<"A", "r", "l", "i", "n", "g", "t", "o", "n">>
l_va == <<"V", "A">>
l_usa == <<"U", "S", "A">>
\* "New  York", with two spaces
l_new_york == <<"N", "e", "w", " ", " ", "Y", "o", "r", "k">>
\* "Save\nSenior Analyst\nWashington, DC\nApply Now"
b_example == <<"S", "a", "v", "e", "\n", "S", "e", "n", "i", "o", "r", " ", "A", "n", "a", "l", "y", "s", "t", "\n", "W", "a", "s", "h", "i", "n", "g", "t", "o", "n", ",", " ", "D", "C", "\n", "A", "p", "p", "l", "y", " ", "N", "o", "w">>
\* "Software Engineer\nDC\nRemote"
b_short_line == <<"S", "o", "f", "t", "w", "a", "r", "e", " ", "E", "n", "g", "i", "n", "e", "e", "r", "\n", "D", "C", "\n", "R", "e", "m", "o", "t", "e">>
\* "QA\nSave"
b_no_title == <<"Q", "A", "\n", "S", "a", "v", "e">>
\* a card text of 501 characters
b_too_long == [n \in 1..(MaxCardText + 1) |-> "x"]

SeqsUpTo(S, n) == UNION {[1..m -> S] : m \in 0..n}

\* x or y, for x a str or None
Or(x, y) == IF x = None \/ x = <<>> THEN y ELSE x

(***************************************************************************)
(* SITES (main.py 71-565): a list of site_conf records.  The model runs    *)
(* either one site whose server (url_a) can serve any page of RichCards,   *)
(* or NumSites sites whose servers (url_b) serve the pages of LeanCards.   *)
(***************************************************************************)
SiteKinds == {"api", "workday", "greenhouse", "lever", "custom", "none"}

site_conf(kind, n, url) ==
    [name |-> n, company |-> n, jobs_url |-> url, api_url |-> api_url,
     use_api |-> (kind = "api"),
     use_selenium |-> (kind \notin {"api", "none"}),
     ats_type |-> IF kind \in {"workday", "greenhouse", "lever"} THEN kind ELSE "custom"]

SiteLists ==
    {<<site_conf(kind, 1, url_a)>> : kind \in SiteKinds}
    \cup {[n \in 1..NumSites |-> site_conf(kinds[n], n, url_b)] :
              kinds \in [1..NumSites -> SiteKinds]}

site == sites[site_no]
Rich == site.jobs_url = url_a

(***************************************************************************)
(* What a card can hold.  A card is a record of what the element answers   *)
(* to the calls of the card loops; fault: reading it raises.               *)
(***************************************************************************)
Card(fault, tag, href, text, title_el, title_href, loc_el, loc_text, a_el, a_href) ==
    [fault |-> fault, tag |-> tag, href |-> href, text |-> text, title_el |-> title_el,
     title_href |-> title_href, loc_el |-> loc_el, loc_text |-> loc_text,
     a_el |-> a_el, a_href |-> a_href]

FaultCard == Card(TRUE, "div", None, <<>>, FALSE, None, FALSE, <<>>, FALSE, None)
\* stands for the content of an element no call has read yet
Unread == Card(FALSE, "", None, <<>>, FALSE, None, FALSE, <<>>, FALSE, None)

Titles(rich) == IF rich THEN {t_software_engineer, t_senior_analyst, t_qa}
                ELSE {t_software_engineer, t_qa}
Locations(rich) == IF rich THEN {l_washington, l_remote} ELSE {l_washington}
Hrefs(rich) == IF rich THEN {None, href_job} ELSE {None}
BlockTexts(rich) ==
    IF rich THEN {b_example, t_software_engineer, b_short_line, b_no_title, <<>>, b_too_long}
    ELSE {t_software_engineer, b_no_title}

\* a sub-element that is absent, or present with one of the values
Opt(values) == {[el |-> FALSE, v |-> None]} \cup {[el |-> TRUE, v |-> x] : x \in values}

\* Workday: [data-automation-id='jobTitle'], its href, [data-automation-id='location'], a
WorkdayCardsOf(rich) ==
    {FaultCard} \cup
    {Card(FALSE, "li", None, t.v, t.el, th, l.el, Or(l.v, <<>>), a.el, a.v) :
        t \in Opt(Titles(rich)), th \in Hrefs(rich), l \in Opt(Locations(rich)),
        a \in Opt(Hrefs(rich))}

\* Greenhouse: div.opening with its a and its .location
GreenhouseCardsOf(rich) ==
    {FaultCard} \cup
    {Card(FALSE, "div", None, Or(a.v, <<>>), FALSE, None, l.el, Or(l.v, <<>>), a.el, ah) :
        a \in Opt(Titles(rich)), ah \in Hrefs(rich), l \in Opt(Locations(rich))}

\* Lever: .posting (any tag) or a[class*='posting-title'] (an a)
LeverCardsOf(rich, selector) ==
    {FaultCard} \cup
    {Card(FALSE, tag, h, t.v, t.el, None, l.el, Or(l.v, <<>>), a.el, a.v) :
        tag \in (IF selector = 1 THEN {"a", "div"} ELSE {"a"}),
        h \in Hrefs(rich), t \in Opt(Titles(rich)), l \in Opt(Locations(rich)),
        a \in Opt(Hrefs(rich))}

\* Generic: selectors 1 and 2 match a elements with a target, the others any element
GenericCardsOf(rich, selector) ==
    {FaultCard} \cup
    {Card(FALSE, tag, h, text, FALSE, None, FALSE, <<>>, a.el, a.v) :
        tag \in (IF selector \in {1, 2} THEN {"a"} ELSE {"a", "div"}),
        h \in (IF selector \in {1, 2} THEN {href_job} ELSE Hrefs(rich)),
        text \in BlockTexts(rich), a \in Opt(Hrefs(rich))}

\* the hyperlinks of a page, for the last-resort scan: target and text
LinkHrefs(rich) == IF rich THEN {None, href_job, href_about, href_jobs_host} ELSE {href_job}
LinkCardsOf(rich) ==
    {Card(FALSE, "a", h, t, FALSE, None, FALSE, <<>>, FALSE, None) :
        h \in LinkHrefs(rich), t \in Titles(rich)}

\* the universes, computed once
CardTable ==
    [rich \in BOOLEAN |->
        [workday |-> WorkdayCardsOf(rich),
         greenhouse |-> GreenhouseCardsOf(rich),
         lever |-> [selector \in 1..2 |-> LeverCardsOf(rich, selector)],
         custom |-> [selector \in 1..9 |-> GenericCardsOf(rich, selector)]]]
WorkdayCards == CardTable[Rich].workday
GreenhouseCards == CardTable[Rich].greenhouse
LeverCards(selector) == CardTable[Rich].lever[selector]
GenericCards(selector) == CardTable[Rich].custom[selector]

(***************************************************************************)
(* The text helpers applied to the texts of these universes are computed   *)
(* once and looked up; on any other text they are computed.                *)
(***************************************************************************)
ElementTexts == Titles(TRUE) \cup Locations(TRUE) \cup {NotSpecified, UnknownTitle}
CleanTextTable == [t \in ElementTexts |-> clean_text(t)]
clean_text_of(t) == IF t \in ElementTexts THEN CleanTextTable[t] ELSE clean_text(t)
TitleTexts == {clean_text(t) : t \in ElementTexts} \cup ElementTexts
ValidTitleTable == [t \in TitleTexts |-> is_valid_job_title(t)]
is_valid_job_title_of(t) ==
    IF t \in TitleTexts THEN ValidTitleTable[t] ELSE is_valid_job_title(t)
CardTexts == {strip(t) : t \in BlockTexts(TRUE) \cup Titles(TRUE)}
TextBlockTable == [t \in {b \in CardTexts : Len(b) <= MaxCardText} |-> text_block(t)]
text_block_of(t) == IF t \in DOMAIN TextBlockTable THEN TextBlockTable[t] ELSE text_block(t)
StripTable == [t \in BlockTexts(TRUE) \cup Titles(TRUE) |-> strip(t)]
strip_of(t) == IF t \in DOMAIN StripTable THEN StripTable[t] ELSE strip(t)

(***************************************************************************)
(* Pages.  page[k] is what locator k of the strategy's cascade matches on  *)
(* the loaded page: a number of elements, or -1 when the query raises.     *)
(* At most two locators of a page answer anything but "no element".        *)
(***************************************************************************)
\* the number of locators of each strategy's cascade (main.py 662-666, 732, 782-784, 843-853)
NumSelectors(ats_type) ==
    CASE ats_type = "workday" -> 3
      [] ats_type = "greenhouse" -> 1
      [] ats_type = "lever" -> 2
      [] OTHER -> 9

PageOf(n, a, va, b, vb) == [x \in 1..n |-> IF x = a THEN va ELSE IF x = b THEN vb ELSE 0]

PagesOf(rich, n) ==
    IF rich
    THEN {PageOf(n, a, va, b, vb) :
              a \in 1..n, b \in 1..n, va \in -1..MaxElems, vb \in -1..MaxElems}
    ELSE {PageOf(n, a, va, a, va) : a \in 1..n, va \in 0..1}
PageTable == [rich \in BOOLEAN |-> [n \in {1, 2, 3, 9} |-> PagesOf(rich, n)]]
Pages(n) == PageTable[Rich][n]

\* the elements locator k matches, in document order
Elements(k, count) ==
    [m \in 1..count |-> [sel |-> k, idx |-> m, known |-> FALSE, c |-> Unread]]

\* the most hyperlinks of a page read by the last-resort scan
MaxLinks == 2

(***************************************************************************)
(* The structured feed of an API site: data["content"].                    *)
(***************************************************************************)
MaxFeed == 3
Absent == <<"<absent>">>
\* a posting: its name, and its location object with a city, a region and a country
\* (city: one of the two values) or with none of them
Posting(name, city) ==
    [name |-> name,
     city |-> city,
     region |-> IF city # Absent THEN l_va ELSE Absent,
     country |-> IF city # Absent THEN l_usa ELSE Absent,
     ref |-> IF city # Absent THEN href_job ELSE Absent]
Postings(rich) ==
    IF rich THEN {Posting(name, city) :
                      name \in {Absent, None, t_software_engineer, t_senior_analyst, t_qa},
                      city \in {Absent, l_arlington, l_new_york}}
    ELSE {Posting(name, l_arlington) : name \in {t_software_engineer, t_qa}}
FeedTable == [rich \in BOOLEAN |-> SeqsUpTo(Postings(rich), IF rich THEN MaxFeed ELSE 1)]
Feeds == FeedTable[Rich]
LinkTable == [rich \in BOOLEAN |-> SeqsUpTo(LinkCardsOf(rich), IF rich THEN MaxLinks ELSE 1)]
AllLinks == LinkTable[Rich]

\* dict.get(key, default)
Get(value, default) == IF value = Absent THEN default ELSE value

(***************************************************************************)
(* Initial state: main before its loop.                                    *)
(***************************************************************************)
NoCard == [attempted |-> FALSE, fault |-> FALSE, valid |-> FALSE, seen |-> FALSE,
           linkless |-> FALSE, locless |-> FALSE, added |-> FALSE]
NoOut == [op |-> "none", val |-> <<>>, prev |-> <<>>]
Pending == [state |-> "pending", rows |-> <<>>]

InitRun(list) ==
    /\ sites = list
    /\ site_no = 1
    /\ all_jobs = <<>>
    /\ successful_sites = 0
    /\ failed_sites = <<>>
    /\ saved = <<>>
    /\ rows = <<>>
    /\ jobs = <<>>
    /\ driver = 0
    /\ browsers = {}
    /\ page = <<>>
    /\ tried = <<>>
    /\ cards = <<>>
    /\ card_no = 0
    /\ seen_titles = {}
    /\ last_card = NoCard
    /\ retrieval = [n \in 1..Len(list) |-> "none"]
    /\ results = [n \in 1..Len(list) |-> Pending]

Init ==
    /\ \E list \in SiteLists : InitRun(list)
    /\ pc = "main"
    /\ inp = <<>>
    /\ out = NoOut

main_vars == <<all_jobs, successful_sites, failed_sites, saved, site_no, sites>>
text_vars == <<inp, out>>
loop_vars == <<page, tried, cards, card_no, seen_titles, last_card>>

(***************************************************************************)
(* scrape_site, first half (main.py 993-1013): the robots check and the    *)
(* choice of the scraper.  allowed_to_scrape answers True when reading     *)
(* robots.txt raises.                                                      *)
(***************************************************************************)
\* allowed_to_scrape with its handler returning False
allowed_to_scrape_strict(answer) == answer = "allowed"

allowed_to_scrape(answer) == IF answer = "raises" THEN TRUE ELSE answer = "allowed"

\* what reading robots.txt did, as retrieval records it
robots_outcome(answer) ==
    CASE answer = "allowed" -> "robots allowed"
      [] answer = "forbidden" -> "robots forbidden"
      [] answer = "raises" -> "robots unreadable"

\* allowed_to_scrape is called for a site that is not use_api only (main.py 996-1002)
scrape_site_begin ==
    /\ pc = "main"
    /\ site_no <= Len(sites)
    /\ IF site.use_api
       THEN /\ pc' = "api"
            /\ UNCHANGED <<rows, results, retrieval>>
       ELSE \E answer \in {"allowed", "forbidden", "raises"} :
            /\ retrieval' = [retrieval EXCEPT ![site_no] = robots_outcome(answer)]
            /\ IF ~allowed_to_scrape(answer)
               THEN /\ rows' = <<>>
                    /\ results' = [results EXCEPT
                                       ![site_no] = [state |-> "returned", rows |-> <<>>]]
                    /\ pc' = "collect"
               ELSE /\ pc' = IF site.use_selenium THEN "launch" ELSE "clean"
                    /\ UNCHANGED <<rows, results>>
    /\ jobs' = <<>>
    /\ UNCHANGED <<main_vars, text_vars, loop_vars, driver, browsers>>

(***************************************************************************)
(* scrape_with_api (main.py 950-990)                                       *)
(***************************************************************************)
\* the location of one posting (main.py 967-976)
\* the location of one posting joined without the ", " between its parts
location_str_unseparated(job) ==
    LET location_parts ==
            (IF Or(Get(job.city, None), <<>>) # <<>> THEN <<job.city>> ELSE <<>>)
            \o (IF Or(Get(job.region, None), <<>>) # <<>> THEN <<job.region>> ELSE <<>>)
            \o (IF Or(Get(job.country, None), <<>>) # <<>> THEN <<job.country>> ELSE <<>>)
    IN  IF location_parts # <<>> THEN join(location_parts, <<>>) ELSE NotSpecified

location_str(job) ==
    LET location_parts ==
            (IF Or(Get(job.city, None), <<>>) # <<>> THEN <<job.city>> ELSE <<>>)
            \o (IF Or(Get(job.region, None), <<>>) # <<>> THEN <<job.region>> ELSE <<>>)
            \o (IF Or(Get(job.country, None), <<>>) # <<>> THEN <<job.country>> ELSE <<>>)
    IN  IF location_parts # <<>> THEN join(location_parts, <<",", " ">>) ELSE NotSpecified

\* the loop of main.py 966-983 without the slice [:max_jobs]
api_jobs_uncapped(job_postings) ==
    [n \in 1..Len(job_postings) |->
        [company |-> site.company,
         title |-> Get(job_postings[n].name, UnknownTitle),
         location |-> location_str(job_postings[n]),
         url |-> Get(job_postings[n].ref, site.api_url)]]

api_jobs(job_postings) ==
    [n \in 1..(IF Len(job_postings) < max_jobs THEN Len(job_postings) ELSE max_jobs) |->
        [company |-> site.company,
         title |-> Get(job_postings[n].name, UnknownTitle),
         location |-> location_str(job_postings[n]),
         url |-> Get(job_postings[n].ref, site.api_url)]]

\* page holds data["content"], the postings of the feed, once it is fetched and decoded
scrape_with_api ==
    /\ pc = "api"
    /\ \E answer \in {"ok", "RequestException", "ValueError", "AttributeError"} :
        \/ /\ answer = "ok"
           /\ \E content \in Feeds : page' = content /\ jobs' = api_jobs(content)
           /\ retrieval' = [retrieval EXCEPT ![site_no] = "obtained"]
           /\ pc' = "clean"
        \/ /\ answer \in {"RequestException", "ValueError"}
           /\ page' = <<>>
           /\ jobs' = <<>>
           /\ retrieval' = [retrieval EXCEPT ![site_no] = "faulted"]
           /\ pc' = "clean"
        \* the decoded feed is not a dict: data.get raises, and no handler of
        \* scrape_with_api or scrape_site catches it
        \/ /\ answer = "AttributeError"
           /\ page' = <<>>
           /\ jobs' = <<>>
           /\ retrieval' = [retrieval EXCEPT ![site_no] = "obtained"]
           /\ pc' = "except"
    /\ UNCHANGED <<main_vars, text_vars, tried, cards, card_no, seen_titles, last_card,
                   driver, browsers, rows, results>>

(***************************************************************************)
(* scrape_with_selenium (main.py 819-947) and the scrapers it routes to.   *)
(***************************************************************************)
\* get_selenium_driver (main.py 568-581), called at main.py 826.  webdriver.Chrome
\* launches the browser; driver.execute_script configures it.  When either
\* raises, driver stays None and the handlers of main.py 939-942 are entered.
get_selenium_driver ==
    /\ pc = "launch"
    /\ \E answer \in {"ok", "launch raises", "execute_script raises"} :
        /\ browsers' = IF answer = "launch raises" THEN browsers
                       ELSE browsers \cup {site_no}
        /\ driver' = IF answer = "ok" THEN site_no ELSE 0
        /\ pc' = IF answer = "ok" THEN "get" ELSE "finally"
        /\ retrieval' = IF answer = "ok" THEN retrieval
                        ELSE [retrieval EXCEPT ![site_no] = "faulted"]
    /\ UNCHANGED <<main_vars, text_vars, loop_vars, jobs, rows, results>>

\* driver.get(jobs_url) and the sleep after it (main.py 658, 728, 778, 839).  When it
\* raises, the scraper's outer handler (or that of main.py 939-942) leaves jobs empty.
driver_get ==
    /\ pc = "get"
    /\ \E answer \in {"ok", "raises"} :
        IF answer = "ok"
        THEN /\ page' \in Pages(NumSelectors(site.ats_type))
             /\ retrieval' = [retrieval EXCEPT ![site_no] = "obtained"]
             /\ pc' = "cascade"
        ELSE /\ page' = <<>>
             /\ retrieval' = [retrieval EXCEPT ![site_no] = "faulted"]
             /\ pc' = "finally"
    /\ tried' = <<>>
    /\ cards' = <<>>
    /\ UNCHANGED <<main_vars, text_vars, card_no, seen_titles, last_card, jobs, rows,
                   results, driver, browsers>>

next_selector == Len(tried) + 1

\* the loop over job_selectors with a TimeoutException left uncaught: it leaves
\* scrape_workday_site through main.py 716
workday_wait_aborts ==
    /\ pc = "cascade"
    /\ site.ats_type = "workday"
    /\ tried' = Append(tried, next_selector)
    /\ IF page[next_selector] > 0
       THEN /\ cards' = Elements(next_selector, page[next_selector])
            /\ pc' = "cards"
       ELSE /\ cards' = <<>>
            /\ pc' = "finally"
    /\ retrieval' = retrieval
    /\ UNCHANGED <<main_vars, text_vars, page, card_no, seen_titles, last_card, jobs, rows,
                   results, driver, browsers>>

\* One turn of the loop over job_selectors (main.py 669-678).  WebDriverWait(...).until
\* returns the elements once there are some and raises TimeoutException when there
\* are none; any other exception leaves scrape_workday_site through main.py 716.
\* retrieval records that every wait of the cascade timed out.
workday_wait ==
    /\ pc = "cascade"
    /\ site.ats_type = "workday"
    /\ tried' = Append(tried, next_selector)
    /\ IF page[next_selector] > 0
       THEN /\ cards' = Elements(next_selector, page[next_selector])
            /\ pc' = "cards"
            /\ retrieval' = retrieval
       ELSE IF page[next_selector] = 0
       THEN /\ cards' = <<>>
            /\ pc' = IF next_selector = NumSelectors("workday") THEN "cards" ELSE "cascade"
            /\ retrieval' = IF next_selector = NumSelectors("workday")
                            THEN [retrieval EXCEPT ![site_no] = "timed out"] ELSE retrieval
       ELSE /\ cards' = <<>>
            /\ pc' = "finally"
            /\ retrieval' = retrieval
    /\ UNCHANGED <<main_vars, text_vars, page, card_no, seen_titles, last_card, jobs, rows,
                   results, driver, browsers>>

\* driver.find_elements(By.CSS_SELECTOR, "div.opening") (main.py 732)
greenhouse_find ==
    /\ pc = "cascade"
    /\ site.ats_type = "greenhouse"
    /\ tried' = <<1>>
    /\ IF page[1] >= 0
       THEN cards' = Elements(1, page[1]) /\ pc' = "cards"
       ELSE cards' = <<>> /\ pc' = "finally"
    /\ UNCHANGED <<main_vars, text_vars, page, card_no, seen_titles, last_card, jobs, rows,
                   results, driver, browsers, retrieval>>

\* cards = find_elements(".posting"); if not cards: find_elements("a[class*=...]")
\* (main.py 782-784)
lever_find ==
    /\ pc = "cascade"
    /\ site.ats_type = "lever"
    /\ IF page[1] > 0
       THEN tried' = <<1>> /\ cards' = Elements(1, page[1]) /\ pc' = "cards"
       ELSE IF page[1] < 0
       THEN tried' = <<1>> /\ cards' = <<>> /\ pc' = "finally"
       ELSE IF page[2] >= 0
       THEN tried' = <<1, 2>> /\ cards' = Elements(2, page[2]) /\ pc' = "cards"
       ELSE tried' = <<1, 2>> /\ cards' = <<>> /\ pc' = "finally"
    /\ UNCHANGED <<main_vars, text_vars, page, card_no, seen_titles, last_card, jobs, rows,
                   results, driver, browsers, retrieval>>

\* the loop over selectors_to_try without its break: a later locator that matches
\* replaces the cards of an earlier one
generic_find_no_break ==
    /\ pc = "cascade"
    /\ site.ats_type = "custom"
    /\ tried' = Append(tried, next_selector)
    /\ cards' = IF page[next_selector] > 0
                THEN Elements(next_selector, page[next_selector]) ELSE cards
    /\ pc' = IF next_selector < NumSelectors("custom") THEN "cascade"
             ELSE IF cards' = <<>> THEN "links" ELSE "cards"
    /\ UNCHANGED <<main_vars, text_vars, page, card_no, seen_titles, last_card, jobs, rows,
                   results, driver, browsers, retrieval>>

\* One turn of the loop over selectors_to_try (main.py 856-864): a query that raises
\* is skipped.  After the last locator, "if not cards" (main.py 866) decides between
\* the link scan and the card loop.
generic_find ==
    /\ pc = "cascade"
    /\ site.ats_type = "custom"
    /\ tried' = Append(tried, next_selector)
    /\ IF page[next_selector] > 0
       THEN /\ cards' = Elements(next_selector, page[next_selector])
            /\ pc' = "cards"
       ELSE /\ cards' = <<>>
            /\ pc' = IF next_selector = NumSelectors("custom") THEN "links" ELSE "cascade"
    /\ UNCHANGED <<main_vars, text_vars, page, card_no, seen_titles, last_card, jobs, rows,
                   results, driver, browsers, retrieval>>

\* "/job" in href.lower() or ... (main.py 873-874)
has_job_keyword(href) ==
    LET h == lower(href)
    IN  \/ Contains(h, <<"/", "j", "o", "b">>)
        \/ Contains(h, <<"/", "c", "a", "r", "e", "e", "r">>)
        \/ Contains(h, <<"/", "p", "o", "s", "i", "t", "i", "o", "n">>)
        \/ Contains(h, <<"/", "o", "p", "e", "n", "i", "n", "g">>)

\* the test of main.py 871-875 on one link
is_job_link(link) ==
    /\ has_job_keyword(Or(link.href, <<>>))
    /\ is_valid_job_title_of(strip_of(link.text))

RECURSIVE job_links(_, _)
job_links(all_links, n) ==
    IF n > Len(all_links) THEN <<>>
    ELSE (IF is_job_link(all_links[n])
          THEN <<[sel |-> 0, idx |-> n, known |-> TRUE, c |-> all_links[n]]>>
          ELSE <<>>) \o job_links(all_links, n + 1)

\* the last resort of main.py 866-880, entered when the cascade left cards empty
generic_link_scan ==
    /\ pc = "links"
    /\ \E all_links \in AllLinks :
        cards' = job_links(all_links, 1)
    /\ tried' = Append(tried, 0)
    /\ pc' = "cards"
    /\ UNCHANGED <<main_vars, text_vars, page, card_no, seen_titles, last_card, jobs, rows,
                   results, driver, browsers, retrieval>>

(***************************************************************************)
(* The card loops.  The element of a card answers the calls of the loop    *)
(* when the loop reaches it: its content is chosen then, except for the    *)
(* cards of the link scan, whose href and text the scan has read.  The     *)
(* loops make no query on the page, which is forgotten once they run.      *)
(***************************************************************************)
Skip == [ok |-> FALSE, job |-> <<>>]
Emit(title, location, url) ==
    [ok |-> TRUE,
     job |-> [company |-> site.company, title |-> title, location |-> location, url |-> url]]

Min2(a, b) == IF a < b THEN a ELSE b

\* cards[:max_jobs] (main.py 680, 735, 788) and cards[:max_jobs * 2] (main.py 884)
attempt_limit == IF site.ats_type = "custom" THEN Min2(Len(cards), max_jobs * 2)
                 ELSE Min2(Len(cards), max_jobs)

\* the body of the loop of scrape_workday_site (main.py 681-714)
workday_extract(c) ==
    IF c.fault \/ ~c.title_el THEN Skip
    ELSE LET title == clean_text_of(c.text)
         IN  IF ~is_valid_job_title_of(title) THEN Skip
             ELSE LET location == IF c.loc_el THEN clean_text_of(c.loc_text) ELSE NotSpecified
                      link == IF Or(c.title_href, <<>>) # <<>> THEN c.title_href
                              ELSE IF c.a_el THEN c.a_href ELSE site.jobs_url
                  IN  Emit(title, Or(location, NotSpecified), Or(link, site.jobs_url))

\* the body of the loop of scrape_greenhouse_site (main.py 736-764)
greenhouse_extract(c) ==
    IF c.fault \/ ~c.a_el THEN Skip
    ELSE LET title == clean_text_of(c.text)
         IN  IF ~is_valid_job_title_of(title) THEN Skip
             ELSE LET location == IF c.loc_el THEN clean_text_of(c.loc_text) ELSE NotSpecified
                  IN  Emit(title, location, Or(c.a_href, site.jobs_url))

\* the body of the loop of scrape_lever_site (main.py 789-811): find_element raises
\* when the card is no a and has no a below it, and the card is skipped
lever_extract(c) ==
    IF c.fault \/ ~c.title_el THEN Skip
    ELSE LET title == clean_text_of(c.text)
         IN  IF ~is_valid_job_title_of(title) THEN Skip
             ELSE LET location == IF c.loc_el THEN clean_text_of(c.loc_text) ELSE NotSpecified
                  IN  IF c.tag = "a" THEN Emit(title, location, Or(c.href, site.jobs_url))
                      ELSE IF c.a_el THEN Emit(title, location, Or(c.a_href, site.jobs_url))
                      ELSE Skip

\* the body of the generic loop (main.py 885-928), given seen_titles
generic_extract(c, seen) ==
    IF c.fault THEN Skip
    ELSE LET card_text == strip_of(c.text)
         IN  IF card_text = <<>> \/ Len(card_text) > MaxCardText THEN Skip
             ELSE LET found == text_block_of(card_text)
                  IN  IF found.title = None \/ found.title \in seen THEN Skip
                      ELSE LET href == IF c.tag = "a" THEN c.href
                                       ELSE IF c.a_el THEN c.a_href ELSE site.jobs_url
                           IN  Emit(found.title, Or(found.location, NotSpecified),
                                    Or(href, site.jobs_url))

\* what the card was, for the properties of the card loops
TitleOf(c) ==
    IF c.fault THEN None
    ELSE IF site.ats_type = "custom"
         THEN (IF strip_of(c.text) = <<>> \/ Len(strip_of(c.text)) > MaxCardText THEN None
               ELSE text_block_of(strip_of(c.text)).title)
    ELSE IF site.ats_type = "greenhouse" THEN (IF c.a_el THEN clean_text_of(c.text) ELSE None)
    ELSE IF c.title_el THEN clean_text_of(c.text) ELSE None
Linkless(c) ==
    CASE site.ats_type = "workday" ->
            Or(c.title_href, <<>>) = <<>> /\ (~c.a_el \/ Or(c.a_href, <<>>) = <<>>)
      [] site.ats_type = "greenhouse" -> Or(c.a_href, <<>>) = <<>>
      [] OTHER -> IF c.tag = "a" THEN Or(c.href, <<>>) = <<>>
                  ELSE (~c.a_el \/ Or(c.a_href, <<>>) = <<>>)
Locless(c) ==
    IF site.ats_type = "custom" THEN FALSE
    ELSE ~c.loc_el \/ clean_text_of(c.loc_text) = <<>>
Describe(c, r) ==
    [attempted |-> TRUE, fault |-> c.fault,
     valid |-> ~c.fault /\ TitleOf(c) # None /\ is_valid_job_title_of(TitleOf(c)),
     seen |-> TitleOf(c) \in seen_titles,
     linkless |-> Linkless(c), locless |-> Locless(c), added |-> r.ok]

\* a turn of a card loop whose card's fault leaves the scraper through its outer
\* handler, losing the jobs of the generic loop
CardTurn_fault_escapes(c, r) ==
    /\ jobs' = IF c.fault THEN <<>> ELSE IF r.ok THEN Append(jobs, r.job) ELSE jobs
    /\ card_no' = IF c.fault THEN Len(cards) ELSE card_no + 1
    /\ last_card' = Describe(c, r)
    /\ page' = <<>>
    /\ tried' = <<>>
    /\ UNCHANGED <<main_vars, text_vars, cards, rows, results, driver, browsers, retrieval>>

\* one turn of a card loop: card is attempted, r is what its body made of it
CardTurn(c, r) ==
    /\ jobs' = IF r.ok THEN Append(jobs, r.job) ELSE jobs
    /\ card_no' = card_no + 1
    /\ last_card' = Describe(c, r)
    /\ page' = <<>>
    /\ tried' = <<>>
    /\ UNCHANGED <<main_vars, text_vars, cards, rows, results, driver, browsers, retrieval>>

workday_card ==
    /\ pc = "cards" /\ site.ats_type = "workday" /\ card_no < attempt_limit
    /\ \E c \in WorkdayCards : CardTurn(c, workday_extract(c))
    /\ UNCHANGED <<pc, seen_titles>>

greenhouse_card ==
    /\ pc = "cards" /\ site.ats_type = "greenhouse" /\ card_no < attempt_limit
    /\ \E c \in GreenhouseCards : CardTurn(c, greenhouse_extract(c))
    /\ UNCHANGED <<pc, seen_titles>>

lever_card ==
    /\ pc = "cards" /\ site.ats_type = "lever" /\ card_no < attempt_limit
    /\ \E c \in LeverCards(cards[card_no + 1].sel) : CardTurn(c, lever_extract(c))
    /\ UNCHANGED <<pc, seen_titles>>

\* the generic loop leaves at "if len(jobs) >= max_jobs: break" (main.py 930)
generic_card ==
    /\ pc = "cards" /\ site.ats_type = "custom" /\ card_no < attempt_limit
    /\ \E c \in (IF cards[card_no + 1].known THEN {cards[card_no + 1].c}
                 ELSE GenericCards(cards[card_no + 1].sel)) :
        LET r == generic_extract(c, seen_titles)
        IN  /\ CardTurn(c, r)
            /\ seen_titles' = IF r.ok THEN seen_titles \cup {r.job.title} ELSE seen_titles
            /\ pc' = IF r.ok /\ Len(jobs) + 1 >= max_jobs THEN "finally" ELSE "cards"

\* the end of a card loop: every card of the slice has been attempted
loop_exit ==
    /\ pc = "cards" /\ card_no >= attempt_limit
    /\ pc' = "finally"
    /\ page' = <<>>
    /\ tried' = <<>>
    /\ UNCHANGED <<main_vars, text_vars, cards, card_no, seen_titles, last_card, jobs,
                   rows, results, driver, browsers, retrieval>>

\* finally: if driver: driver.quit() (main.py 943-945), then return jobs.  When quit
\* raises, the exception leaves scrape_with_selenium and scrape_site.
selenium_finally ==
    /\ pc = "finally"
    /\ \E answer \in {"ok", "quit raises"} :
        IF driver # 0 /\ answer = "quit raises"
        THEN /\ pc' = "except" /\ browsers' = browsers /\ jobs' = <<>>
             /\ retrieval' = [retrieval EXCEPT ![site_no] = "faulted"]
        ELSE /\ pc' = "clean" /\ browsers' = browsers \ {driver} /\ jobs' = jobs
             /\ retrieval' = retrieval
    /\ driver' = 0
    /\ page' = <<>> /\ tried' = <<>> /\ cards' = <<>> /\ card_no' = 0
    /\ seen_titles' = {} /\ last_card' = NoCard
    /\ UNCHANGED <<main_vars, text_vars, rows, results>>

(***************************************************************************)
(* scrape_site, second half (main.py 1015-1030)                            *)
(***************************************************************************)
\* the loop of main.py 1017-1024 without the test of main.py 1018
RECURSIVE cleaned_jobs_unvalidated(_)
cleaned_jobs_unvalidated(js) ==
    IF js = <<>> THEN <<>>
    ELSE LET job == Head(js)
         IN  <<[job EXCEPT !.location =
                   IF Or(job.location, <<>>) # <<>>
                   THEN Or(clean_text_of(job.location), NotSpecified)
                   ELSE job.location]>> \o cleaned_jobs_unvalidated(Tail(js))

RECURSIVE cleaned_jobs(_)
cleaned_jobs(js) ==
    IF js = <<>> THEN <<>>
    ELSE LET job == Head(js)
         IN  IF Or(job.title, <<>>) = <<>> \/ ~is_valid_job_title_of(job.title)
             THEN cleaned_jobs(Tail(js))
             ELSE <<[job EXCEPT !.location =
                        IF Or(job.location, <<>>) # <<>>
                        THEN Or(clean_text_of(job.location), NotSpecified)
                        ELSE job.location]>> \o cleaned_jobs(Tail(js))

scrape_site_clean ==
    /\ pc = "clean"
    /\ rows' = cleaned_jobs(jobs)
    /\ results' = [results EXCEPT ![site_no] = [state |-> "returned", rows |-> cleaned_jobs(jobs)]]
    /\ pc' = "collect"
    /\ UNCHANGED <<main_vars, text_vars, loop_vars, jobs, driver, browsers, retrieval>>

(***************************************************************************)
(* main (main.py 1047-1086)                                                *)
(***************************************************************************)
\* main.py 1061-1067 leaving the loop over SITES at the first site without rows
main_collect_stops ==
    /\ pc = "collect"
    /\ IF rows # <<>>
       THEN /\ all_jobs' = all_jobs \o rows
            /\ successful_sites' = successful_sites + 1
            /\ failed_sites' = failed_sites
            /\ site_no' = site_no + 1
       ELSE /\ failed_sites' = Append(failed_sites, site.name)
            /\ site_no' = Len(sites) + 1
            /\ UNCHANGED <<all_jobs, successful_sites>>
    /\ rows' = <<>>
    /\ jobs' = <<>>
    /\ page' = <<>>
    /\ pc' = "main"
    /\ UNCHANGED <<sites, saved, text_vars, tried, cards, card_no, seen_titles, last_card,
                   results, driver, browsers, retrieval>>

\* main.py 1061-1067 putting the rows of a site before those of the earlier sites
main_collect_prepends ==
    /\ pc = "collect"
    /\ IF rows # <<>>
       THEN /\ all_jobs' = rows \o all_jobs
            /\ successful_sites' = successful_sites + 1
            /\ failed_sites' = failed_sites
       ELSE /\ failed_sites' = Append(failed_sites, site.name)
            /\ UNCHANGED <<all_jobs, successful_sites>>
    /\ site_no' = site_no + 1
    /\ rows' = <<>>
    /\ jobs' = <<>>
    /\ page' = <<>>
    /\ pc' = "main"
    /\ UNCHANGED <<sites, saved, text_vars, tried, cards, card_no, seen_titles, last_card,
                   results, driver, browsers, retrieval>>

\* the body of the try of main.py 1058-1067, after scrape_site returned rows
main_collect ==
    /\ pc = "collect"
    /\ IF rows # <<>>
       THEN /\ all_jobs' = all_jobs \o rows
            /\ successful_sites' = successful_sites + 1
            /\ failed_sites' = failed_sites
       ELSE /\ failed_sites' = Append(failed_sites, site.name)
            /\ UNCHANGED <<all_jobs, successful_sites>>
    /\ site_no' = site_no + 1
    /\ rows' = <<>>
    /\ jobs' = <<>>
    /\ page' = <<>>
    /\ pc' = "main"
    /\ UNCHANGED <<sites, saved, text_vars, tried, cards, card_no, seen_titles, last_card,
                   results, driver, browsers, retrieval>>

\* except Exception (main.py 1068-1071)
main_except ==
    /\ pc = "except"
    /\ failed_sites' = Append(failed_sites, site.name)
    /\ results' = [results EXCEPT ![site_no] = [state |-> "raised", rows |-> <<>>]]
    /\ site_no' = site_no + 1
    /\ page' = <<>>
    /\ pc' = "main"
    /\ UNCHANGED <<sites, all_jobs, successful_sites, saved, text_vars, tried, cards, card_no,
                   seen_titles, last_card, jobs, rows, driver, browsers, retrieval>>

\* save_to_csv(all_jobs) after the loop (main.py 1086, 1033-1044)
save_to_csv ==
    /\ pc = "main"
    /\ site_no > Len(sites)
    /\ saved' = all_jobs
    /\ pc' = "done"
    /\ UNCHANGED <<sites, site_no, all_jobs, successful_sites, failed_sites, text_vars,
                   loop_vars, jobs, rows, results, driver, browsers, retrieval>>

Next ==
    \/ scrape_site_begin
    \/ scrape_with_api
    \/ get_selenium_driver
    \/ driver_get
    \/ workday_wait
    \/ greenhouse_find
    \/ lever_find
    \/ generic_find
    \/ generic_link_scan
    \/ workday_card
    \/ greenhouse_card
    \/ lever_card
    \/ generic_card
    \/ loop_exit
    \/ selenium_finally
    \/ scrape_site_clean
    \/ main_collect
    \/ main_except
    \/ save_to_csv

Spec == Init /\ [][Next]_vars

(***************************************************************************)
(* The text helpers on their own: an input is drawn, and clean_text (once, *)
(* then again on its own result), is_valid_job_title or the text-block     *)
(* loop is applied to it.                                                  *)
(***************************************************************************)
p_location_colon == <<"L", "o", "c", "a", "t", "i", "o", "n", ":">>
p_location == <<"L", "o", "c", "a", "t", "i", "o", "n">>
p_results == <<"R", "e", "s", "u", "l", "t", "s">>
p_save == <<"S", "a", "v", "e">>
p_dev == <<"D", "e", "v">>
p_home == <<"H", "o", "m", "e">>
p_12345 == <<"1", "2", "3", "4", "5">>
p_senior_backend_engineer == <<"S", "e", "n", "i", "o", "r", " ", "B", "a", "c", "k", "e", "n", "d", " ", "E", "n", "g", "i", "n", "e", "e", "r">>
p_business_unit == <<"B", "u", "s", "i", "n", "e", "s", "s", " ", "U", "n", "i", "t">>
p_view_job == <<"V", "i", "e", "w", " ", "J", "o", "b">>
p_apply_now == <<"A", "p", "p", "l", "y", " ", "N", "o", "w">>
p_view == <<"V", "i", "e", "w">>
p_company == <<"C", "o", "m", "p", "a", "n", "y">>
p_viewpoint == <<"V", "i", "e", "w", "p", "o", "i", "n", "t">>

\* the pieces inputs are concatenated from
Pieces == {p_location_colon, <<" ">>, l_remote, p_location, <<"D", "C">>, p_dev, p_home,
           <<"3">>, p_results, <<"\n">>, p_save, <<"a">>}
\* inputs given whole
Samples == {t_qa, l_va, p_12345, p_senior_backend_engineer, p_business_unit, p_view_job,
            p_apply_now, p_view, p_company, t_senior_analyst, l_washington}
\* the lines card texts are made of
Lines == {p_save, t_senior_analyst, l_washington, p_apply_now, <<"D", "C">>, l_remote,
          p_viewpoint}

RECURSIVE concat(_)
concat(ps) == IF ps = <<>> THEN <<>> ELSE Head(ps) \o concat(Tail(ps))

TextInputs ==
    {concat(ps) : ps \in SeqsUpTo(Pieces, MaxPieces)}
    \cup Samples
    \cup {join(ls, <<"\n">>) : ls \in SeqsUpTo(Lines, MaxLines)}

InitText ==
    /\ InitRun(<<>>)
    /\ pc = "text"
    /\ inp \in TextInputs
    /\ out = NoOut

run_vars == <<sites, site_no, pc, all_jobs, successful_sites, failed_sites, saved, rows, jobs,
              driver, browsers, page, tried, cards, card_no, seen_titles, last_card,
              retrieval, results>>

\* out.val = clean_text(inp)
Normalize ==
    /\ pc = "text" /\ out.op = "none"
    /\ out' = [op |-> "clean_text", val |-> clean_text(inp), prev |-> inp]
    /\ UNCHANGED <<inp, run_vars>>

\* out.val = clean_text(clean_text(inp)), out.prev = clean_text(inp)
NormalizeAgain ==
    /\ pc = "text" /\ out.op = "clean_text"
    /\ out' = [op |-> "clean_text twice", val |-> clean_text(out.val), prev |-> out.val]
    /\ UNCHANGED <<inp, run_vars>>

\* out.val = is_valid_job_title(inp)
Validate ==
    /\ pc = "text" /\ out.op = "none"
    /\ out' = [op |-> "is_valid_job_title", val |-> is_valid_job_title(inp), prev |-> inp]
    /\ UNCHANGED <<inp, run_vars>>

\* out.val = the title and the location the loop of main.py 891-906 finds in
\* card_text = inp.strip(), for a card the loop is run on (main.py 886-889)
TextBlock ==
    /\ pc = "text" /\ out.op = "none"
    /\ strip(inp) # <<>> /\ Len(strip(inp)) <= MaxCardText
    /\ out' = [op |-> "text_block", val |-> text_block(strip(inp)), prev |-> strip(inp)]
    /\ UNCHANGED <<inp, run_vars>>

NextText == Normalize \/ NormalizeAgain \/ Validate \/ TextBlock

SpecText == InitText /\ [][NextText]_vars

(***************************************************************************)
(* Properties                                                              *)
(***************************************************************************)
Returned == pc = "collect"
IsEmpty(x) == x = None \/ x = <<>>

\* C1: every record scrape_site returns, whatever the site, has a non-empty title
\* that is_valid_job_title accepts.
C1_EveryReturnedTitleValid ==
    Returned => \A n \in 1..Len(rows) :
                    ~IsEmpty(rows[n].title) /\ is_valid_job_title(rows[n].title)

\* C1 witness: an API pass has returned; its feed held a posting whose name the
\* validator rejects and one it accepts, and only the latter is among the rows.
C1_Witness ==
    /\ Returned /\ site.use_api
    /\ \E n \in 1..Len(jobs) : jobs[n].title = t_qa
    /\ rows # <<>>
    /\ \A n \in 1..Len(rows) : rows[n].title # t_qa

\* C2 as claimed: within one site's pass of a browser-scraped site, no two
\* returned records have the same title.
C2_NoDuplicateTitles ==
    (Returned /\ site.use_selenium) =>
        \A a, b \in 1..Len(rows) : a # b => rows[a].title # rows[b].title

\* C3 as claimed: a returned record never has an empty location, and a card that
\* is appended although it has no location element, or one whose text normalizes
\* to the empty string, is appended with the location "Not specified".
C3_LocationDefaults ==
    /\ Returned => \A n \in 1..Len(rows) : ~IsEmpty(rows[n].location)
    /\ (pc \in {"cards", "finally"} /\ last_card.added /\ last_card.locless)
           => jobs[Len(jobs)].location = NotSpecified

\* C4 as claimed: a card whose title is extracted and valid (and, in the generic
\* loop, not seen before) and which has no hyperlink is appended, with the site's
\* listing URL as its url; no returned record has an empty url.
C4_LinklessCardKeepsListingUrl ==
    /\ (pc \in {"cards", "finally"} /\ last_card.attempted /\ last_card.valid
            /\ ~last_card.seen /\ last_card.linkless)
           => (last_card.added /\ jobs[Len(jobs)].url = site.jobs_url)
    /\ Returned => \A n \in 1..Len(rows) : ~IsEmpty(rows[n].url)

\* C5 as claimed: when scrape_with_selenium has returned or raised, no browser
\* session is open; so none is open when the next site's pass begins.
C5_SessionClosedOnReturn ==
    pc \in {"clean", "collect", "except", "main", "done"} => browsers = {}

\* the records of saved that came from site n
RowsOfSite(n) == SelectSeq(saved, LAMBDA job : job.company = sites[n].company)

\* C6: when the run is over, a site whose retrieval raised (browser launch, page
\* load, HTTP fetch, JSON decode) has contributed no record, and every site after
\* it has been processed and its rows are in the final output.
C6_FaultedSiteIsolated ==
    pc = "done" =>
        \A n \in 1..Len(sites) :
            retrieval[n] = "faulted" =>
                /\ results[n].state # "pending"
                /\ results[n].rows = <<>>
                /\ RowsOfSite(n) = <<>>
                /\ \A m \in (n + 1)..Len(sites) :
                       /\ results[m].state # "pending"
                       /\ RowsOfSite(m) = results[m].rows

\* C6 witness: the run is over, the first site's retrieval raised, and the rows
\* of the second site are the final output.
C6_Witness ==
    /\ pc = "done" /\ Len(sites) >= 2
    /\ retrieval[1] = "faulted"
    /\ results[2].rows # <<>>
    /\ saved = results[2].rows

\* the locators that match something on the loaded page
Matching == {k \in DOMAIN page : page[k] > 0}
CascadeDone ==
    /\ pc = "cards" /\ page # <<>>
    /\ site.ats_type \in {"workday", "custom"}
    /\ \A n \in 1..Len(tried) : tried[n] # 0

\* C8: when the workday or the generic cascade ends, the cards are exactly the
\* elements of the first locator, in declared order, that matches anything, and
\* no locator after it has been queried; they are empty when no locator matches.
C8_FirstMatchWins ==
    CascadeDone =>
        IF Matching = {}
        THEN cards = <<>> /\ tried = [n \in 1..Len(page) |-> n]
        ELSE /\ cards = Elements(SetMin(Matching), page[SetMin(Matching)])
             /\ tried = [n \in 1..SetMin(Matching) |-> n]

\* C8 witness: of three workday locators the first matches nothing and the second
\* and the third match; the cards are the second's elements.
C8_Witness ==
    /\ CascadeDone /\ site.ats_type = "workday"
    /\ page[1] = 0 /\ page[2] > 0 /\ page[3] > 0
    /\ cards = Elements(2, page[2])

\* the lines of a card text, normalized
NormLines(text) ==
    LET lines == split_on(text, "\n") IN [n \in 1..Len(lines) |-> clean_text(lines[n])]
ActionLine(line) ==
    StartsWithCI(line, s_save) \/ StartsWithCI(line, s_apply) \/ StartsWithCI(line, s_view)
\* the first line the validator accepts is the title; the first line after it that is
\* longer than shortest and is no action line is the location
BlockRule(text, shortest) ==
    LET norm == NormLines(text)
        titles == {n \in 1..Len(norm) : is_valid_job_title(norm[n])}
        locs == {n \in 1..Len(norm) :
                    /\ titles # {} /\ n > SetMin(titles)
                    /\ Len(norm[n]) > shortest /\ ~ActionLine(norm[n])}
    IN  [title |-> IF titles = {} THEN None ELSE norm[SetMin(titles)],
         location |-> IF locs = {} THEN NotSpecified ELSE norm[SetMin(locs)]]
Found == [title |-> out.val.title, location |-> Or(out.val.location, NotSpecified)]

\* C9 as claimed: the location is the first line after the title line whose
\* normalized text is non-empty and begins with none of Save, Apply, View.
C9_NextNonEmptyLine == out.op = "text_block" => Found = BlockRule(out.prev, 0)

\* C9 as amended: the title is the first line whose normalized text the validator
\* accepts; the location is the first line after it whose normalized text is longer
\* than 2 characters and begins with none of Save, Apply, View (in any case), and
\* "Not specified" when there is none.
C9_NextLongerLine == out.op = "text_block" => Found = BlockRule(out.prev, 2)

\* C9 witness: the line "DC" after the title is passed over and the line after it
\* is the location.
C9_Witness ==
    /\ out.op = "text_block"
    /\ out.prev = join(<<t_senior_analyst, <<"D", "C">>, l_washington>>, <<"\n">>)
    /\ out.val.title = t_senior_analyst
    /\ out.val.location = l_washington

\* C7 as claimed: clean_text applied to its own result changes nothing.
C7_Idempotent == out.op = "clean_text twice" => out.val = out.prev

\* the rule of C10: reject a candidate shorter than 3, purely numeric, made of 2 or 3
\* upper-case letters, equal to "home" in any case, or a UI-chrome word; accept any
\* other iff a whitespace-delimited token is longer than 2
PlausibleTitleRule(title) ==
    LET t == strip(title)
        words == split(title)
    IN  IF \/ Len(title) < 3
           \/ (t # <<>> /\ \A n \in 1..Len(t) : IsDigit(t[n]))
           \/ (Len(t) \in {2, 3} /\ \A n \in 1..Len(t) : IsUpper(t[n]))
           \/ lower(t) = s_home
           \/ lower(t) \in invalid_labels
        THEN FALSE
        ELSE \E w \in 1..Len(words) : Len(words[w]) > 2

\* C10 as claimed: is_valid_job_title decides every candidate by that rule.
C10_ValidatorRule == out.op = "is_valid_job_title" => out.val = PlausibleTitleRule(inp)

\* C11 as claimed: is_valid_job_title rejects every string that clean_text treats as
\* UI chrome (a whole-string match of one of its ui_patterns, so that clean_text
\* returns ""), and also "View", "Company" and "Results".
C11_ChromeIsNoTitle ==
    (/\ out.op = "is_valid_job_title"
     /\ \/ ui_patterns(inp)
        \/ lower(strip(inp)) \in {s_view, s_company, s_results})
        => out.val = FALSE

\* C12: whatever the platform and the retrieval mode, and however many cards or
\* postings there are, a scraper never holds more than max_jobs records and
\* scrape_site never returns more than max_jobs.
C12_CapNeverExceeded ==
    /\ Len(jobs) <= max_jobs
    /\ Returned => Len(rows) <= max_jobs

\* C12 witness: an API pass has returned max_jobs records from a feed of more
\* postings than that.
C12_Witness ==
    /\ Returned /\ site.use_api
    /\ Len(page) > max_jobs
    /\ Len(rows) = max_jobs

\* an API pass has returned and its feed was fetched and decoded
ApiReturned == Returned /\ site.use_api /\ retrieval[site_no] = "obtained"
\* the feed of C13: within the cap, every name accepted by the validator, the names
\* pairwise distinct, and every posting with all of city, region, country or with none
FeedOfValidNames(feed) ==
    /\ Len(feed) <= max_jobs
    /\ \A n \in 1..Len(feed) :
           /\ feed[n].name # Absent /\ ~IsEmpty(feed[n].name)
           /\ is_valid_job_title(feed[n].name)
    /\ \A a, b \in 1..Len(feed) : a # b => feed[a].name # feed[b].name
\* "city, region, country"
CityRegionCountry(job) == job.city \o <<",", " ">> \o job.region \o <<",", " ">> \o job.country

\* C13 as claimed: such a feed of n postings gives exactly n records in feed order,
\* each with the descriptor's company, the posting's name as title and
\* "city, region, country" as location, or "Not specified" when all three are absent.
C13_ApiRecordsVerbatim ==
    (ApiReturned /\ FeedOfValidNames(page)) =>
        /\ Len(rows) = Len(page)
        /\ \A n \in 1..Len(page) :
               /\ rows[n].company = site.company
               /\ rows[n].title = page[n].name
               /\ rows[n].location = IF page[n].city = Absent THEN NotSpecified
                                     ELSE CityRegionCountry(page[n])

\* C13 as amended: the location is clean_text applied to "city, region, country".
C13_ApiRecordsNormalized ==
    (ApiReturned /\ FeedOfValidNames(page)) =>
        /\ Len(rows) = Len(page)
        /\ \A n \in 1..Len(page) :
               /\ rows[n].company = site.company
               /\ rows[n].title = page[n].name
               /\ rows[n].location = IF page[n].city = Absent THEN NotSpecified
                                     ELSE clean_text(CityRegionCountry(page[n]))

\* C13 witness: a feed of two postings, the first with a city written with two
\* spaces, the second without a location, has given two records in feed order.
C13_Witness ==
    /\ ApiReturned
    /\ page = <<Posting(t_software_engineer, l_new_york), Posting(t_senior_analyst, Absent)>>
    /\ Len(rows) = 2
    /\ rows[1].title = t_software_engineer /\ rows[1].location # CityRegionCountry(page[1])
    /\ rows[2].title = t_senior_analyst /\ rows[2].location = NotSpecified

\* C14 as claimed: in every strategy the matched cards are attempted in order up to
\* 2 x max_jobs and the loop stops only once max_jobs records are held; so a card
\* loop that has ended holds max_jobs records or has attempted every one of the
\* first 2 x max_jobs matched cards.
C14_AttemptsTwiceTheCap ==
    pc = "finally" =>
        \/ Len(jobs) = max_jobs
        \/ card_no = Min2(Len(cards), 2 * max_jobs)

\* a wait of the workday cascade is about to time out
WorkdayTimeout ==
    pc = "cascade" /\ site.ats_type = "workday" /\ page[next_selector] = 0

\* C15: in the workday cascade a wait that times out only advances the cascade to
\* the next locator in declared order (to the card loop after the last one), and
\* the pass is not aborted; a later locator that matches supplies the cards; a
\* site all of whose waits timed out has no card, no job, and returns no record
\* without raising.
C15_TimeoutAdvances ==
    /\ [][WorkdayTimeout =>
             /\ tried' = Append(tried, next_selector)
             /\ pc' = IF next_selector < NumSelectors("workday") THEN "cascade" ELSE "cards"
             /\ jobs' = jobs /\ driver' = driver /\ browsers' = browsers]_vars
    /\ [](\A n \in 1..Len(sites) :
              retrieval[n] = "timed out" =>
                  /\ results[n] \in {Pending, [state |-> "returned", rows |-> <<>>]}
                  /\ RowsOfSite(n) = <<>>
                  /\ (n = site_no /\ pc \in {"cards", "finally", "clean", "collect"})
                         => (cards = <<>> /\ jobs = <<>> /\ rows = <<>>))
    /\ []((pc = "cards" /\ page # <<>> /\ site.ats_type = "workday" /\ cards # <<>>) =>
              \E k \in DOMAIN page :
                  /\ page[k] > 0 /\ cards = Elements(k, page[k])
                  /\ \A m \in 1..(k - 1) : page[m] = 0)

\* C15 witness: every wait of a workday site timed out, and the site has returned
\* an empty result to main.
C15_Witness ==
    /\ Returned /\ site.ats_type = "workday"
    /\ retrieval[site_no] = "timed out"
    /\ results[site_no] = [state |-> "returned", rows |-> <<>>]

\* a card loop has just attempted a card, and reading that card raised
CardFaulted == last_card'.fault /\ card_no' = card_no + 1

\* C16: in the workday, greenhouse, lever and generic loops, a card whose
\* extraction raises adds no record and leaves the records accumulated so far
\* unchanged, the loop goes on with the next card, and a loop ends only when every
\* card within the attempt bound has been attempted (or, in the generic loop, when
\* max_jobs records are held).
C16_CardFaultSkipsOneCard ==
    /\ [][(pc = "cards" /\ CardFaulted) =>
             /\ jobs' = jobs /\ cards' = cards /\ pc' = "cards"
             /\ driver' = driver /\ browsers' = browsers]_vars
    /\ [][(pc = "cards" /\ pc' # "cards") =>
             \/ card_no' = attempt_limit
             \/ (site.ats_type = "custom" /\ Len(jobs') >= max_jobs)]_vars

\* C16 witness: the second card of a generic loop raised; the record of the first
\* is still there and there are cards left to attempt.
C16_Witness ==
    /\ pc = "cards" /\ site.ats_type = "custom"
    /\ card_no = 2 /\ last_card.fault
    /\ Len(jobs) = 1
    /\ card_no < attempt_limit

\* the results of the first n sites, one after the other
RECURSIVE ConcatRows(_)
ConcatRows(n) == IF n = 0 THEN <<>> ELSE ConcatRows(n - 1) \o results[n].rows
\* what identifies a record within its site
Key(job) == <<job.title, job.url>>
Keys(js) == [n \in 1..Len(js) |-> Key(js[n])]

\* C17: the sites are processed one at a time in list order, each finished before
\* the next starts (no site after the current one has been touched, every site
\* before it has its result); the collected and the saved rows are the per-site
\* results concatenated in list order; within a site the cards are attempted in
\* the order the locator returned them, each record is appended after those of
\* the earlier cards (for an API site: record n comes from posting n), and
\* scrape_site keeps that relative order.
C17_ListOrder ==
    /\ [][site_no' \in {site_no, site_no + 1}]_vars
    /\ [](\A n \in 1..Len(sites) :
              /\ n > site_no => (results[n] = Pending /\ retrieval[n] = "none")
              /\ n < site_no => results[n].state # "pending")
    /\ [](pc # "text" => all_jobs = ConcatRows(site_no - 1))
    /\ [](pc = "done" => saved = ConcatRows(Len(sites)))
    /\ [][(pc = "cards" /\ card_no' # card_no) =>
             /\ card_no' = card_no + 1
             /\ IF last_card'.added
                THEN Len(jobs') = Len(jobs) + 1 /\ SubSeq(jobs', 1, Len(jobs)) = jobs
                ELSE jobs' = jobs]_vars
    /\ []((pc = "clean" /\ site.use_api /\ retrieval[site_no] = "obtained") =>
              /\ Len(jobs) = Min2(Len(page), max_jobs)
              /\ \A n \in 1..Len(jobs) : jobs[n].title = Get(page[n].name, UnknownTitle))
    /\ [](Returned =>
              Keys(rows) = SelectSeq(Keys(jobs),
                                     LAMBDA k : ~IsEmpty(k[1]) /\ is_valid_job_title_of(k[1])))

\* C17 witness: a run of several sites is over, the first two sites both returned
\* records, and the saved rows are those of the first followed by those of the second.
C17_Witness ==
    /\ pc = "done" /\ Len(sites) >= 2
    /\ results[1].rows # <<>> /\ results[2].rows # <<>>
    /\ SubSeq(saved, 1, Len(results[1].rows) + Len(results[2].rows))
           = results[1].rows \o results[2].rows

\* the path component of a URL, as urlparse splits it: what follows the host
url_path(href) ==
    LET at == {n \in 1..(Len(href) - 2) : SubSeq(href, n, n + 2) = <<":", "/", "/">>}
        rest == IF at = {} THEN href ELSE SubSeq(href, SetMin(at) + 3, Len(href))
        slash == {n \in 1..Len(rest) : rest[n] = "/"}
    IN  IF at = {} THEN href
        ELSE IF slash = {} THEN <<>>
        ELSE SubSeq(rest, SetMin(slash), Len(rest))
\* the last-resort scan has just filled cards
LinkScanDone == pc = "cards" /\ tried # <<>> /\ tried[Len(tried)] = 0

\* C18 as claimed: the last-resort scan runs only after every locator of the generic
\* cascade was queried and none matched, and every hyperlink it keeps as a card has
\* a job keyword in the path component of its target and a text the validator accepts.
C18_LinkScanUsesPath ==
    /\ pc = "links" =>
           /\ site.ats_type = "custom" /\ cards = <<>>
           /\ tried = [n \in 1..NumSelectors("custom") |-> n]
           /\ \A k \in DOMAIN page : page[k] <= 0
    /\ LinkScanDone =>
           \A n \in 1..Len(cards) :
               /\ has_job_keyword(url_path(Or(cards[n].c.href, <<>>)))
               /\ is_valid_job_title(strip(cards[n].c.text))

\* a step that launches a browser session or loads a page
Launches == browsers' \ browsers # {}
LoadsPage == pc = "get" /\ page' # <<>>

\* C19: for a site that is not use_api, robots.txt has been consulted before a
\* browser session is launched and before a page is loaded, and both happen only
\* when it allowed the site or could not be read; a site it forbids gets no
\* session and an empty result; a site whose robots.txt cannot be read goes on to
\* its scraper like an allowed one; a use_api site goes to scrape_with_api without
\* robots.txt being consulted.
C19_RobotsGate ==
    /\ [][(Launches \/ LoadsPage) =>
             /\ ~site.use_api
             /\ retrieval[site_no] \in {"robots allowed", "robots unreadable"}]_vars
    /\ [](\A n \in 1..Len(sites) :
              retrieval[n] = "robots forbidden" =>
                  /\ n \notin browsers
                  /\ results[n] = [state |-> "returned", rows |-> <<>>]
                  /\ RowsOfSite(n) = <<>>
                  /\ n = site_no => (pc = "collect" /\ driver = 0 /\ rows = <<>>))
    /\ [][(pc = "main" /\ pc' # "done"
             /\ retrieval'[site_no] \in {"robots allowed", "robots unreadable"}) =>
             (pc' = IF site.use_selenium THEN "launch" ELSE "clean")]_vars
    /\ [][(pc = "main" /\ site_no <= Len(sites) /\ site.use_api) =>
             (pc' = "api" /\ retrieval' = retrieval /\ results' = results)]_vars

\* C19 witness: robots.txt forbade the first site, which returned nothing and had
\* no session; that of the second could not be read, and its session is open.
C19_Witness ==
    /\ Len(sites) >= 2 /\ site_no = 2 /\ pc = "get"
    /\ retrieval[1] = "robots forbidden"
    /\ results[1] = [state |-> "returned", rows |-> <<>>]
    /\ retrieval[2] = "robots unreadable"
    /\ browsers = {2}

====
